---------------------------- MODULE Spec2Model ----------------------------
(***************************************************************************)
(* Kinematic motion validation, path interpolation, start/goal repair and  *)
(* path shortcutting of ompl::kinematic::SpaceInformationKinematic and     *)
(* ompl::geometric::PathSimplifier.                                        *)
(*                                                                         *)
(* Scalars (C++ double) are modelled as exact rationals <<n, d>> with      *)
(* d > 0 and gcd(n, d) = 1, so that s1 + k*step, the division by nd and    *)
(* the (int) cast are computed as the code computes them, without the      *)
(* rounding of the floating-point unit.  A state is a tuple of             *)
(* m_stateDimension scalars.                                               *)
(***************************************************************************)
EXTENDS Integers, Sequences, FiniteSets

VARIABLES
    m_stateComponent,   \* per-axis [type, minValue, maxValue, resolution]
    obstacle,           \* the injected validity checker: its blocked cells
    call,               \* the last call of a motion-level operation and its result
    path,               \* PathKinematic::states of the path being processed
    prev,               \* the path before the last path operation
    pathOp,             \* the last path operation and its result
    fault,              \* an operation ran into undefined behaviour
    simp,               \* PathSimplifier: the running shortcut loop
    m_startStates,      \* start states (a state or NULL each)
    m_goal,             \* the goal: NoGoalState, or [state |-> state or NULL]
    m_msg,              \* the diagnostics emitted by the last repair
    fixIn               \* the inputs of the last repair

vars == <<m_stateComponent, obstacle, call, path, prev, pathOp, fault, simp,
          m_startStates, m_goal, m_msg, fixIn>>

-----------------------------------------------------------------------------
(* Bounds of the model *)

MaxCoord == 3

(* pi in model units: a wrapping axis has period 2 * HalfTurn *)
HalfTurn == 2

-----------------------------------------------------------------------------
(* Exact rational arithmetic standing for double *)

Abs(x) == IF x < 0 THEN -x ELSE x

RECURSIVE GCD(_, _)
GCD(a, b) == IF b = 0 THEN a ELSE GCD(b, a % b)

Norm(n, d) == LET g == GCD(Abs(n), d) IN <<n \div g, d \div g>>

R(k) == <<k, 1>>

RAdd(a, b) == Norm(a[1] * b[2] + b[1] * a[2], a[2] * b[2])

RSub(a, b) == Norm(a[1] * b[2] - b[1] * a[2], a[2] * b[2])

RMul(a, b) == Norm(a[1] * b[1], a[2] * b[2])

RDiv(a, b) == IF b[1] > 0 THEN Norm(a[1] * b[2], a[2] * b[1])
              ELSE Norm(-(a[1] * b[2]), a[2] * (-b[1]))

RAbs(a) == <<Abs(a[1]), a[2]>>

RLess(a, b) == a[1] * b[2] < b[1] * a[2]

RLeq(a, b) == a[1] * b[2] <= b[1] * a[2]

RFloor(a) == a[1] \div a[2]

(* the (int) cast of a double: truncation toward zero *)
IntCast(a) == IF a[1] >= 0 THEN a[1] \div a[2] ELSE -((-a[1]) \div a[2])

(* C fmod: x - trunc(x / y) * y, the sign of x *)
Fmod(x, y) == RSub(x, RMul(R(IntCast(RDiv(x, y))), y))

RMax(a, b) == IF RLess(a, b) THEN b ELSE a

RMin(a, b) == IF RLess(b, a) THEN b ELSE a

-----------------------------------------------------------------------------
(* angles.h *)

TwoPi == R(2 * HalfTurn)

normalize_angle_positive(angle) == Fmod(RAdd(Fmod(angle, TwoPi), TwoPi), TwoPi)

normalize_angle(angle) ==
    LET a == normalize_angle_positive(angle)
    IN  IF RLess(R(HalfTurn), a) THEN RSub(a, TwoPi) ELSE a

shortest_angular_distance(from, to) == normalize_angle(RSub(to, from))

-----------------------------------------------------------------------------
(* The space *)

LINEAR == "LINEAR"
WRAPPING_ANGLE == "WRAPPING_ANGLE"

m_stateDimension == Len(m_stateComponent)

Component(t, lo, hi, res) ==
    [type |-> t, minValue |-> R(lo), maxValue |-> R(hi), resolution |-> res]

(* axis 1 is linear on [0, MaxCoord], axis 2 a wrapping angle *)
Space(res1, res2) ==
    << Component(LINEAR, 0, MaxCoord, res1),
       Component(WRAPPING_ANGLE, -HalfTurn, HalfTurn, res2) >>

Resolutions == {R(1), R(2), <<1, 2>>}

Spaces == {Space(r1, r2) : r1 \in Resolutions, r2 \in Resolutions}

UnitSpace == Space(R(1), R(1))

InputStates ==
    {<<R(x), R(a)>> : x \in 0..MaxCoord, a \in (-HalfTurn)..(HalfTurn - 1)}

(* The validity checker: a state is invalid when one of its axes lies in a *)
(* blocked cell of width CellWidth (angles taken modulo the period)        *)
CellWidth == <<1, 2>>

Cell(axis, v) ==
    IF m_stateComponent[axis].type = WRAPPING_ANGLE
    THEN RFloor(RDiv(normalize_angle_positive(v), CellWidth))
    ELSE RFloor(RDiv(v, CellWidth))

Cells == ({1} \X (0..RFloor(RDiv(R(MaxCoord), CellWidth))))
            \cup ({2} \X (0..(RFloor(RDiv(TwoPi, CellWidth)) - 1)))

(* validity checkers with at most one blocked cell *)
Obstacles == {{}} \cup {{c} : c \in Cells}

isValid(st) ==
    \A i \in 1..Len(st) : <<i, Cell(i, st[i])>> \notin obstacle

-----------------------------------------------------------------------------
(* findDifferenceStep *)

Diff(s1, s2) ==
    [i \in 1..m_stateDimension |->
        IF m_stateComponent[i].type = WRAPPING_ANGLE
        THEN shortest_angular_distance(s1[i], s2[i])
        ELSE RSub(s2[i], s1[i])]

(* a plausible slip: the "1 +" of the division count left out *)
Divisions_NoPlusOne(diff, factor, i) ==
    IntCast(RDiv(RAbs(diff[i]), RMul(factor, m_stateComponent[i].resolution)))

Divisions(diff, factor, i) ==
    1 + IntCast(RDiv(RAbs(diff[i]), RMul(factor, m_stateComponent[i].resolution)))

RECURSIVE DivisionLoop(_, _, _, _)
DivisionLoop(diff, factor, i, nd) ==
    IF i > m_stateDimension THEN nd
    ELSE LET d == Divisions(diff, factor, i)
         IN  DivisionLoop(diff, factor, i + 1, IF nd < d THEN d ELSE nd)

findDifferenceStep(s1, s2, factor) ==
    LET diff == Diff(s1, s2)
        nd == DivisionLoop(diff, factor, 1, 1)
    IN  [nd |-> nd,
         step |-> [i \in 1..m_stateDimension |-> RDiv(diff[i], R(nd))]]

(* s1 + k * step, per axis *)
GridState(s1, step, k) ==
    [i \in 1..Len(s1) |-> RAdd(s1[i], RMul(R(k), step[i]))]


-----------------------------------------------------------------------------
(* checkMotionSubdivision *)

Midpoint(x) == (x[1] + x[2]) \div 2

(* a plausible slip: the upper half pushed only when it holds two indices *)
PushHalves_SkipUpper(pos, x, mid) ==
    LET lower == IF x[1] < mid THEN Append(pos, <<x[1], mid - 1>>) ELSE pos
    IN  IF x[2] > mid + 1 THEN Append(lower, <<mid + 1, x[2]>>) ELSE lower

(* the two pushes that follow pos.pop() *)
PushHalves(pos, x, mid) ==
    LET lower == IF x[1] < mid THEN Append(pos, <<x[1], mid - 1>>) ELSE pos
    IN  IF x[2] > mid THEN Append(lower, <<mid + 1, x[2]>>) ELSE lower

RECURSIVE SubdivisionLoop(_, _, _)
SubdivisionLoop(s1, step, pos) ==
    IF pos = <<>> THEN TRUE
    ELSE LET x == Head(pos)
             mid == Midpoint(x)
             test == GridState(s1, step, mid)
         IN  IF ~isValid(test) THEN FALSE
             ELSE SubdivisionLoop(s1, step, PushHalves(Tail(pos), x, mid))

checkMotionSubdivision(s1, s2) ==
    IF ~isValid(s2) THEN FALSE
    ELSE LET fds == findDifferenceStep(s1, s2, R(1))
             pos == IF fds.nd >= 2 THEN << <<1, fds.nd - 1>> >> ELSE <<>>
         IN  SubdivisionLoop(s1, fds.step, pos)

-----------------------------------------------------------------------------
(* checkMotionIncremental.  An out-parameter is <<>> while unwritten and   *)
(* <<v>> once the callee has written v; wantState / wantTime say whether   *)
(* the caller passed a non-null lastValidState / lastValidTime.            *)

(* a plausible slip: "factor -= 1.0" left out *)
LastValidIndex_NoStepBack(j) == j

LastValidIndex(j) == j - 1

(* a plausible slip: the scan stops one index early *)
RECURSIVE IncrementalLoop_StopEarly(_, _, _, _, _, _)
IncrementalLoop_StopEarly(s1, step, nd, j, wantState, wantTime) ==
    IF j >= nd - 1
    THEN [ret |-> TRUE, lastValidState |-> <<>>, lastValidTime |-> <<>>]
    ELSE IF ~isValid(GridState(s1, step, j))
         THEN [ret |-> FALSE,
               lastValidState |->
                   IF wantState THEN <<GridState(s1, step, j - 1)>> ELSE <<>>,
               lastValidTime |->
                   IF wantTime THEN <<Norm(j - 1, nd)>> ELSE <<>>]
         ELSE IncrementalLoop_StopEarly(s1, step, nd, j + 1, wantState, wantTime)

RECURSIVE IncrementalLoop(_, _, _, _, _, _)
IncrementalLoop(s1, step, nd, j, wantState, wantTime) ==
    IF j >= nd
    THEN [ret |-> TRUE, lastValidState |-> <<>>, lastValidTime |-> <<>>]
    ELSE IF ~isValid(GridState(s1, step, j))
         THEN [ret |-> FALSE,
               lastValidState |->
                   IF wantState
                   THEN <<GridState(s1, step, LastValidIndex(j))>> ELSE <<>>,
               lastValidTime |->
                   IF wantTime THEN <<Norm(LastValidIndex(j), nd)>> ELSE <<>>]
         ELSE IncrementalLoop(s1, step, nd, j + 1, wantState, wantTime)

checkMotionIncremental(s1, s2, wantState, wantTime) ==
    IF ~isValid(s2)
    THEN [ret |-> FALSE, lastValidState |-> <<>>, lastValidTime |-> <<>>]
    ELSE LET fds == findDifferenceStep(s1, s2, R(1))
         IN  IncrementalLoop(s1, fds.step, fds.nd, 1, wantState, wantTime)

-----------------------------------------------------------------------------
(* getMotionStates.  A vector of State pointers is a function on 0..n-1;   *)
(* NULL is the null pointer, Uninit a State whose values were never set.   *)

NULL == <<>>

Uninit == << <<0, 0>>, <<0, 0>> >>

Size(v) == Cardinality(DOMAIN v)

Resize(v, n) == [k \in 0..(n - 1) |-> IF k \in DOMAIN v THEN v[k] ELSE NULL]

(* a plausible slip: the loop runs to j <= nd *)
RECURSIVE MotionStatesLoop_OffByOne(_, _, _, _, _, _, _)
MotionStatesLoop_OffByOne(s1, step, nd, states, alloc, j, added) ==
    IF j <= nd /\ added < Size(states)
    THEN MotionStatesLoop_OffByOne(s1, step, nd,
                          [states EXCEPT ![j] = GridState(s1, step, j)],
                          alloc, j + 1, added + 1)
    ELSE [states |-> states, added |-> added]

RECURSIVE MotionStatesLoop(_, _, _, _, _, _, _)
MotionStatesLoop(s1, step, nd, states, alloc, j, added) ==
    IF j < nd /\ added < Size(states)
    THEN MotionStatesLoop(s1, step, nd,
                          [states EXCEPT ![j] = GridState(s1, step, j)],
                          alloc, j + 1, added + 1)
    ELSE [states |-> states, added |-> added]

getMotionStates(s1, s2, states, alloc) ==
    LET fds == findDifferenceStep(s1, s2, R(1))
        nd == fds.nd
        v0 == IF alloc THEN [Resize(states, nd + 1) EXCEPT ![0] = Uninit]
              ELSE states
        v1 == IF Size(v0) > 0 THEN [v0 EXCEPT ![0] = s1] ELSE v0
        a1 == IF Size(v0) > 0 THEN 1 ELSE 0
        l == MotionStatesLoop(s1, fds.step, nd, v1, alloc, 1, a1)
    IN  IF l.added < Size(l.states)
        THEN [states |-> [l.states EXCEPT ![l.added] = s2],
              added |-> l.added + 1]
        ELSE l

-----------------------------------------------------------------------------
(* Motion-level operations applied to inputs of the caller's choice *)

MaxSlots == 4

Factors == {R(1), <<1, 2>>, <<1, 3>>}

(* what a caller's vector holds before the call *)
CallerState == <<R(-1), R(0)>>

CallerVector(n) == [k \in 0..(n - 1) |-> CallerState]

NoCall == [op |-> "none"]

PathIdle ==
    /\ path = <<>>
    /\ prev = <<>>
    /\ pathOp = [op |-> "none"]
    /\ fault = FALSE
    /\ simp = [pc |-> "idle"]

NoGoalState == [kind |-> "Goal"]

FixIdle ==
    /\ m_startStates = <<>>
    /\ m_goal = NoGoalState
    /\ m_msg = <<>>
    /\ fixIn = [op |-> "none"]

pathVars == <<path, prev, pathOp, fault, simp>>

fixVars == <<m_startStates, m_goal, m_msg, fixIn>>

FindDifferenceStep ==
    /\ call = NoCall
    /\ \E s1 \in InputStates, s2 \in InputStates, factor \in Factors :
        /\ call' = [op |-> "findDifferenceStep", s1 |-> s1, s2 |-> s2,
                    factor |-> factor,
                    out |-> findDifferenceStep(s1, s2, factor)]
        /\ UNCHANGED <<m_stateComponent, obstacle, pathVars, fixVars>>

GetMotionStates ==
    /\ call = NoCall
    /\ \E s1 \in InputStates, s2 \in InputStates,
       n \in 0..MaxSlots, alloc \in BOOLEAN :
        /\ call' = [op |-> "getMotionStates", s1 |-> s1, s2 |-> s2,
                    states |-> CallerVector(n), alloc |-> alloc,
                    out |-> getMotionStates(s1, s2, CallerVector(n), alloc)]
        /\ UNCHANGED <<m_stateComponent, obstacle, pathVars, fixVars>>

CheckMotionSubdivision ==
    /\ call = NoCall
    /\ \E s1 \in InputStates, s2 \in InputStates :
        /\ call' = [op |-> "checkMotionSubdivision", s1 |-> s1, s2 |-> s2,
                    ret |-> checkMotionSubdivision(s1, s2)]
        /\ UNCHANGED <<m_stateComponent, obstacle, pathVars, fixVars>>

CheckMotionIncremental ==
    /\ call = NoCall
    /\ \E s1 \in InputStates, s2 \in InputStates,
       wantState \in BOOLEAN, wantTime \in BOOLEAN :
        /\ call' = [op |-> "checkMotionIncremental", s1 |-> s1, s2 |-> s2,
                    wantState |-> wantState, wantTime |-> wantTime,
                    out |-> checkMotionIncremental(s1, s2, wantState, wantTime)]
        /\ UNCHANGED <<m_stateComponent, obstacle, pathVars, fixVars>>

(* the difference step and the materialised grid, over every space *)
InitStep ==
    /\ m_stateComponent \in Spaces
    /\ obstacle = {}
    /\ call = NoCall
    /\ PathIdle
    /\ FixIdle

NextStep == FindDifferenceStep \/ GetMotionStates

SpecStep == InitStep /\ [][NextStep]_vars

(* the two motion validators, over every validity checker *)
MotionSpaces == {Space(<<1, 2>>, R(1))}

InitMotion ==
    /\ m_stateComponent \in MotionSpaces
    /\ obstacle \in Obstacles
    /\ call = NoCall
    /\ PathIdle
    /\ FixIdle

NextMotion == CheckMotionSubdivision \/ CheckMotionIncremental

SpecMotion == InitMotion /\ [][NextMotion]_vars


-----------------------------------------------------------------------------
(* Properties of the motion-level operations *)

SetMax(S) == CHOOSE m \in S : \A x \in S : x <= m

Min(a, b) == IF a < b THEN a ELSE b

(* the grid of the edge (s1, s2) at factor 1.0 *)
EdgeGrid(s1, s2) == findDifferenceStep(s1, s2, R(1))

InteriorValid(s1, s2) ==
    LET g == EdgeGrid(s1, s2)
    IN  \A k \in 1..(g.nd - 1) : isValid(GridState(s1, g.step, k))

(* C1: when checkMotionSubdivision returns true on an edge whose s1 is     *)
(* valid, s2 is valid and every grid state s1 + k*step, 1 <= k <= nd-1, is *)
(* valid: the midpoint-first FIFO subdivision skips no interior index.     *)
C1_BisectionSound ==
    (call.op = "checkMotionSubdivision" /\ isValid(call.s1) /\ call.ret)
        => (isValid(call.s2) /\ InteriorValid(call.s1, call.s2))

C1_Witness ==
    /\ call.op = "checkMotionSubdivision"
    /\ isValid(call.s1)
    /\ call.ret
    /\ obstacle # {}
    /\ EdgeGrid(call.s1, call.s2).nd >= 6

(* C2: when checkMotionIncremental returns false and has written           *)
(* lastValidTime = (j-1)/nd, grid states 0..j-1 are valid, grid state j is *)
(* invalid, and the emitted lastValidState is s1 + (j-1)*step.             *)
C2_WitnessCorrect ==
    (/\ call.op = "checkMotionIncremental"
     /\ isValid(call.s1)
     /\ ~call.out.ret
     /\ call.out.lastValidTime # <<>>)
        => LET g == EdgeGrid(call.s1, call.s2)
               scaled == RMul(call.out.lastValidTime[1], R(g.nd))
               j == scaled[1] + 1
           IN  /\ scaled[2] = 1
               /\ j \in 1..(g.nd - 1)
               /\ \A k \in 0..(j - 1) : isValid(GridState(call.s1, g.step, k))
               /\ ~isValid(GridState(call.s1, g.step, j))
               /\ call.wantState =>
                    call.out.lastValidState = <<GridState(call.s1, g.step, j - 1)>>

C2_Witness ==
    /\ call.op = "checkMotionIncremental"
    /\ isValid(call.s1)
    /\ ~call.out.ret
    /\ call.wantState
    /\ call.out.lastValidTime # <<>>
    /\ RLeq(<<1, 2>>, call.out.lastValidTime[1])

(* C6: findDifferenceStep returns nd = max(1, max_i(1 + floor(|diff[i]| /  *)
(* (rho * resolution[i])))) >= 1 and a step with |step[i]| = |diff[i]|/nd  *)
(* <= rho * resolution[i], diff[i] being the shortest signed angular       *)
(* difference on a wrapping axis and s2[i] - s1[i] on any other.           *)
C6_Difference(s1, s2, i) ==
    IF m_stateComponent[i].type = WRAPPING_ANGLE
    THEN CHOOSE d \in {RAdd(RSub(s2[i], s1[i]), RMul(R(m), TwoPi)) : m \in -2..2} :
            RLess(R(-HalfTurn), d) /\ RLeq(d, R(HalfTurn))
    ELSE RSub(s2[i], s1[i])

C6_StepWithinResolution ==
    call.op = "findDifferenceStep"
        => LET bound(i) == RMul(call.factor, m_stateComponent[i].resolution)
               diff(i) == C6_Difference(call.s1, call.s2, i)
               axes == 1..m_stateDimension
           IN  /\ call.out.nd =
                    SetMax({1} \cup {1 + RFloor(RDiv(RAbs(diff(i)), bound(i))) :
                                        i \in axes})
               /\ call.out.nd >= 1
               /\ \A i \in axes :
                    /\ RMul(call.out.step[i], R(call.out.nd)) = diff(i)
                    /\ RLeq(RAbs(call.out.step[i]), bound(i))

C6_Witness ==
    /\ call.op = "findDifferenceStep"
    /\ call.factor = <<1, 2>>
    /\ call.out.nd >= 3
    /\ C6_Difference(call.s1, call.s2, 2) # RSub(call.s2[2], call.s1[2])
    /\ call.out.step[2] # R(0)

(* C7: getMotionStates with alloc = true resizes the vector to nd+1,       *)
(* returns nd+1 and fills every slot (s1, the interior grid states, s2);   *)
(* with alloc = false and a vector of length L it returns min(L, nd+1),    *)
(* writes grid state k into slot k below that count (slot nd gets s2),     *)
(* keeps the length and leaves every slot at or beyond the count alone.    *)
C7_Slot(s1, s2, g, k) ==
    IF k = 0 THEN s1 ELSE IF k = g.nd THEN s2 ELSE GridState(s1, g.step, k)

C7_MotionStates ==
    call.op = "getMotionStates"
        => LET g == EdgeGrid(call.s1, call.s2)
               L == Size(call.states)
               out == call.out
           IN  IF call.alloc
               THEN /\ DOMAIN out.states = 0..g.nd
                    /\ out.added = g.nd + 1
                    /\ \A k \in 0..g.nd :
                         out.states[k] = C7_Slot(call.s1, call.s2, g, k)
               ELSE /\ DOMAIN out.states = DOMAIN call.states
                    /\ out.added = Min(L, g.nd + 1)
                    /\ \A k \in 0..(L - 1) :
                         out.states[k] =
                            IF k < out.added
                            THEN C7_Slot(call.s1, call.s2, g, k)
                            ELSE call.states[k]

C7_Witness ==
    /\ call.op = "getMotionStates"
    /\ ~call.alloc
    /\ Size(call.states) = 4
    /\ call.out.added = 3
    /\ EdgeGrid(call.s1, call.s2).nd = 2
    /\ call.s1[2] = R(1)
    /\ call.s2[2] = R(-2)

(* C9: checkMotionSubdivision and checkMotionIncremental return the same   *)
(* boolean on every edge: true exactly when s2 and the grid states         *)
(* 1..nd-1 are valid.                                                      *)
C9_Verdict(s1, s2) == isValid(s2) /\ InteriorValid(s1, s2)

C9_SameVerdict ==
    /\ call.op = "checkMotionSubdivision" =>
         /\ call.ret = checkMotionIncremental(call.s1, call.s2, FALSE, FALSE).ret
         /\ call.ret = C9_Verdict(call.s1, call.s2)
    /\ call.op = "checkMotionIncremental" =>
         /\ call.out.ret = checkMotionSubdivision(call.s1, call.s2)
         /\ call.out.ret = C9_Verdict(call.s1, call.s2)

C9_Witness ==
    /\ call.op = "checkMotionIncremental"
    /\ ~call.out.ret
    /\ isValid(call.s2)
    /\ ~checkMotionSubdivision(call.s1, call.s2)
    /\ EdgeGrid(call.s1, call.s2).nd >= 6


-----------------------------------------------------------------------------
(* checkPath.  A PathKinematic pointer is <<>> when null and <<states>>    *)
(* otherwise; states[j] of the code is states[j + 1] here.                 *)

(* a plausible slip: the last edge is never checked *)
RECURSIVE CheckPathLoop_SkipLast(_, _, _)
CheckPathLoop_SkipLast(states, j, last) ==
    IF j < last - 1
    THEN IF ~checkMotionSubdivision(states[j + 1], states[j + 2]) THEN FALSE
         ELSE CheckPathLoop_SkipLast(states, j + 1, last)
    ELSE TRUE

RECURSIVE CheckPathLoop(_, _, _)
CheckPathLoop(states, j, last) ==
    IF j < last
    THEN IF ~checkMotionSubdivision(states[j + 1], states[j + 2]) THEN FALSE
         ELSE CheckPathLoop(states, j + 1, last)
    ELSE TRUE

checkPath(ptr) ==
    LET result == ptr # NULL
    IN  IF result /\ Len(ptr[1]) > 0
        THEN IF isValid(ptr[1][1])
             THEN CheckPathLoop(ptr[1], 0, Len(ptr[1]) - 1)
             ELSE FALSE
        ELSE result

-----------------------------------------------------------------------------
(* interpolatePath *)

(* a plausible slip: the inner loop runs to j <= nd *)
InteriorStates_Inclusive(s1, step, nd) ==
    [j \in 1..nd |-> GridState(s1, step, j)]

(* the states in between: j = 1 .. nd - 1 *)
InteriorStates(s1, step, nd) ==
    [j \in 1..(nd - 1) |-> GridState(s1, step, j)]

(* a plausible slip: the path is densified at half the requested factor *)
EdgeStep_HalfFactor(s1, s2, factor) ==
    findDifferenceStep(s1, s2, RMul(factor, <<1, 2>>))

EdgeStep(s1, s2, factor) == findDifferenceStep(s1, s2, factor)

RECURSIVE InterpolateLoop(_, _, _, _, _)
InterpolateLoop(states, factor, i, n1, newStates) ==
    IF i < n1
    THEN LET s1 == states[i + 1]
             s2 == states[i + 2]
             fds == EdgeStep(s1, s2, factor)
         IN  InterpolateLoop(states, factor, i + 1, n1,
                 Append(newStates, s1) \o InteriorStates(s1, fds.step, fds.nd))
    ELSE newStates

(* a garbage State pointer, read from outside the vector's storage *)
WildState == << <<1, 0>>, <<1, 0>> >>

(* The outcomes of interpolatePath: [states, fault].  On an empty path     *)
(* n1 = size() - 1 is -1, no edge is visited and states[n1] reads before   *)
(* the vector's storage: the read traps, or yields a garbage pointer that  *)
(* is pushed and swapped into the path.                                    *)
interpolatePath(states, factor) ==
    LET n1 == Len(states) - 1
        newStates == InterpolateLoop(states, factor, 0, n1, <<>>)
    IN  IF n1 >= 0
        THEN {[states |-> Append(newStates, states[n1 + 1]), fault |-> FALSE]}
        ELSE {[states |-> states, fault |-> TRUE],
              [states |-> Append(newStates, WildState), fault |-> TRUE]}

-----------------------------------------------------------------------------
(* Paths handed to the path operations *)

MaxPathLen == 3

MaxWaypoint == 2

RECURSIVE SeqsUpTo(_, _)
SeqsUpTo(S, n) ==
    IF n = 0 THEN {<<>>}
    ELSE LET shorter == SeqsUpTo(S, n - 1)
         IN  shorter \cup {Append(q, x) : q \in shorter, x \in S}

(* waypoints whose consecutive edges cross the +-pi seam of axis 2 *)
Waypoints ==
    {<<R(x), R(IF x % 2 = 0 THEN -1 ELSE HalfTurn)>> : x \in 0..MaxWaypoint}

InputPaths == SeqsUpTo(Waypoints, MaxPathLen)

NoPathOp == [op |-> "none"]

motionVars == <<m_stateComponent, obstacle, call>>

InterpolatePath ==
    /\ ~fault
    /\ pathOp.op \in {"none", "interpolatePath"}
    /\ pathOp.op = "interpolatePath" => Len(pathOp.factors) < 2
    /\ \E factor \in {R(1), <<1, 2>>} : \E r \in interpolatePath(path, factor) :
        /\ path' = r.states
        /\ fault' = r.fault
        /\ prev' = path
        /\ pathOp' = [op |-> "interpolatePath",
                      factors |-> IF pathOp.op = "none" THEN <<factor>>
                                  ELSE Append(pathOp.factors, factor)]
        /\ UNCHANGED <<motionVars, simp, fixVars>>

InitInterpolate ==
    /\ m_stateComponent \in Spaces
    /\ obstacle = {}
    /\ call = NoCall
    /\ path \in InputPaths
    /\ prev = <<>>
    /\ pathOp = NoPathOp
    /\ fault = FALSE
    /\ simp = [pc |-> "idle"]
    /\ FixIdle

NextInterpolate == InterpolatePath

SpecInterpolate == InitInterpolate /\ [][NextInterpolate]_vars

-----------------------------------------------------------------------------
(* Properties of interpolatePath *)

RECURSIVE IsSubsequence(_, _)
IsSubsequence(a, b) ==
    IF a = <<>> THEN TRUE
    ELSE IF b = <<>> THEN FALSE
    ELSE IF Head(a) = Head(b) THEN IsSubsequence(Tail(a), Tail(b))
    ELSE IsSubsequence(a, Tail(b))

LastFactor == pathOp.factors[Len(pathOp.factors)]

(* C8: interpolatePath at factor 1.0 is idempotent on non-empty paths:     *)
(* after one application every edge has nd = 1, the original vertices are  *)
(* still there in order (first and last in place), and a second            *)
(* application returns the same sequence of states.                        *)
C8_InterpolateIdempotent ==
    (/\ pathOp.op = "interpolatePath"
     /\ LastFactor = R(1)
     /\ Len(prev) > 0)
        => /\ ~fault
           /\ \A i \in 1..(Len(path) - 1) :
                findDifferenceStep(path[i], path[i + 1], R(1)).nd = 1
           /\ IsSubsequence(prev, path)
           /\ path[1] = prev[1]
           /\ path[Len(path)] = prev[Len(prev)]
           /\ interpolatePath(path, R(1)) = {[states |-> path, fault |-> FALSE]}

C8_Witness ==
    /\ pathOp.op = "interpolatePath"
    /\ pathOp.factors = <<R(1), R(1)>>
    /\ path = prev
    /\ Len(path) > 2 * MaxPathLen

(* C10: interpolatePath reads only positions 0..n-1 of a path of n >= 0    *)
(* states, every pointer it stores refers to an existing or freshly        *)
(* created state, and an empty path stays empty.                           *)
C10_InterpolateSafeOnEveryPath ==
    pathOp.op = "interpolatePath"
        => /\ ~fault
           /\ \A i \in 1..Len(path) : path[i] # WildState
           /\ (prev = <<>> => path = <<>>)

-----------------------------------------------------------------------------
(* PathSimplifier: reduceVertices, collapseCloseVertices, simplifyMax.     *)
(* One ShortcutStep is one iteration of the shortcutting loop; simp holds  *)
(* the loop's position and counters.                                       *)

MaxSteps == 2

DefaultMaxEmptySteps == 5

DefaultRangeRatio == <<1, 5>>

(* the window of collapseCloseVertices: j - i in 2 .. CloseWindow *)
CloseWindow == 3

RCeil(a) == -((-a[1]) \div a[2])

Splice(states, i, j) ==
    SubSeq(states, 1, i + 1) \o SubSeq(states, j + 1, Len(states))

(* candidate index pairs (i, j), 0-based, of a path of n vertices *)
ReducePairs(n, rangeRatio) ==
    {p \in (0..(n - 1)) \X (0..(n - 1)) :
        /\ p[2] - p[1] >= 2
        /\ p[2] - p[1] <= RCeil(RMul(rangeRatio, R(n)))}

ClosePairs(n) ==
    {p \in (0..(n - 1)) \X (0..(n - 1)) :
        p[2] - p[1] >= 2 /\ p[2] - p[1] <= CloseWindow}

CandidatePairs ==
    IF simp.pc = "collapse" THEN ClosePairs(Len(path))
    ELSE ReducePairs(Len(path), simp.rangeRatio)

StartLoop(pc, caller, phase, maxSteps, maxEmptySteps, rangeRatio) ==
    [pc |-> pc, caller |-> caller, phase |-> phase, entry |-> path,
     steps |-> 0, emptySteps |-> 0,
     maxSteps |-> IF maxSteps = 0 THEN Len(path) ELSE maxSteps,
     maxEmptySteps |-> maxEmptySteps, rangeRatio |-> rangeRatio]

LoopRunning ==
    /\ simp.pc \in {"reduce", "collapse"}
    /\ Len(path) > 2
    /\ simp.steps < simp.maxSteps
    /\ simp.steps < MaxSteps
    /\ simp.emptySteps < simp.maxEmptySteps

(* <<maxSteps, maxEmptySteps, rangeRatio>> as callers pass them *)
ReduceArguments ==
    { <<0, DefaultMaxEmptySteps, DefaultRangeRatio>>,
      <<0, 1, R(1)>>,
      <<1, DefaultMaxEmptySteps, R(1)>> }

CollapseArguments == { <<0, DefaultMaxEmptySteps>>, <<1, 1>> }

SessionIdle == ~fault /\ simp.pc = "idle" /\ pathOp = NoPathOp

ReduceVertices ==
    /\ SessionIdle
    /\ \E a \in ReduceArguments :
        simp' = StartLoop("reduce", "reduceVertices", 1, a[1], a[2], a[3])
    /\ pathOp' = [op |-> "reduceVertices"]
    /\ prev' = path
    /\ UNCHANGED <<motionVars, path, fault, fixVars>>

CollapseCloseVertices ==
    /\ SessionIdle
    /\ \E a \in CollapseArguments :
        simp' = StartLoop("collapse", "collapseCloseVertices", 1,
                          a[1], a[2], DefaultRangeRatio)
    /\ pathOp' = [op |-> "collapseCloseVertices"]
    /\ prev' = path
    /\ UNCHANGED <<motionVars, path, fault, fixVars>>

SimplifyMax ==
    /\ SessionIdle
    /\ simp' = StartLoop("reduce", "simplifyMax", 1,
                         0, DefaultMaxEmptySteps, DefaultRangeRatio)
    /\ pathOp' = [op |-> "simplifyMax"]
    /\ prev' = path
    /\ UNCHANGED <<motionVars, path, fault, fixVars>>

ShortcutStep ==
    /\ ~fault
    /\ LoopRunning
    /\ prev' = path
    /\ IF CandidatePairs = {}
       THEN /\ path' = path
            /\ simp' = [simp EXCEPT !.steps = @ + 1, !.emptySteps = @ + 1]
            /\ pathOp' = [op |-> "shortcut", ok |-> FALSE]
       ELSE \E p \in CandidatePairs :
              IF checkMotionSubdivision(path[p[1] + 1], path[p[2] + 1])
              THEN /\ path' = Splice(path, p[1], p[2])
                   /\ simp' = [simp EXCEPT !.steps = @ + 1, !.emptySteps = 0]
                   /\ pathOp' = [op |-> "shortcut", ok |-> TRUE]
              ELSE /\ path' = path
                   /\ simp' = [simp EXCEPT !.steps = @ + 1,
                                           !.emptySteps = @ + 1]
                   /\ pathOp' = [op |-> "shortcut", ok |-> FALSE]
    /\ UNCHANGED <<motionVars, fault, fixVars>>

(* simplifyMax, between its two shortcutting runs: interpolate at 1.0 *)
Densify ==
    /\ ~fault
    /\ simp.pc = "reduce" /\ ~LoopRunning
    /\ simp.caller = "simplifyMax" /\ simp.phase = 1
    /\ \E r \in interpolatePath(path, R(1)) :
        /\ path' = r.states
        /\ fault' = r.fault
        /\ simp' = [StartLoop("reduce", "simplifyMax", 2,
                              0, DefaultMaxEmptySteps, DefaultRangeRatio)
                        EXCEPT !.entry = simp.entry,
                               !.maxSteps = Len(r.states)]
    /\ prev' = path
    /\ pathOp' = [op |-> "densify"]
    /\ UNCHANGED <<motionVars, fixVars>>

CheckPath ==
    /\ SessionIdle
    /\ \E ptr \in {NULL, <<path>>} :
        pathOp' = [op |-> "checkPath", ptr |-> ptr, ret |-> checkPath(ptr)]
    /\ UNCHANGED <<motionVars, path, prev, fault, simp, fixVars>>

(* paths that leave the first waypoint and visit no waypoint twice *)
SimplifyPaths ==
    {q \in InputPaths :
        /\ Len(q) > 0 => q[1] = CHOOSE w \in Waypoints : w[1] = R(0)
        /\ \A i, j \in 1..Len(q) : q[i] = q[j] => i = j}

InitSimplify ==
    /\ m_stateComponent = UnitSpace
    /\ obstacle \in Obstacles
    /\ call = NoCall
    /\ path \in SimplifyPaths
    /\ prev = <<>>
    /\ pathOp = NoPathOp
    /\ fault = FALSE
    /\ simp = [pc |-> "idle"]
    /\ FixIdle

NextSimplify ==
    \/ CheckPath
    \/ ReduceVertices
    \/ CollapseCloseVertices
    \/ SimplifyMax
    \/ ShortcutStep
    \/ Densify

SpecSimplify == InitSimplify /\ [][NextSimplify]_vars

-----------------------------------------------------------------------------
(* Properties of checkPath and of the path simplifier *)

(* valid under bisection: first state valid, every consecutive edge passes *)
ValidUnderBisection(states) ==
    /\ Len(states) > 0
    /\ isValid(states[1])
    /\ \A j \in 1..(Len(states) - 1) :
         checkMotionSubdivision(states[j], states[j + 1])

(* C3: a path valid under bisection is still valid under bisection after   *)
(* every single mutation of reduceVertices, collapseCloseVertices and      *)
(* simplifyMax (each shortcut splice, the densification at factor 1.0),    *)
(* hence at every point of a run that started from a valid path.           *)
C3_SimplifierKeepsValidity ==
    /\ (pathOp.op \in {"shortcut", "densify"} /\ checkPath(<<prev>>)
            /\ Len(prev) > 0)
         => (~fault /\ checkPath(<<path>>) /\ Len(path) > 0)
    /\ (simp.pc # "idle" /\ ValidUnderBisection(simp.entry))
         => (~fault /\ ValidUnderBisection(path))

C3_Witness ==
    /\ pathOp.op = "shortcut"
    /\ pathOp.ok
    /\ simp.caller = "simplifyMax"
    /\ simp.phase = 2
    /\ obstacle # {}
    /\ ValidUnderBisection(simp.entry)
    /\ \E i \in 1..Len(path) : path[i][1][2] # 1

-----------------------------------------------------------------------------
(* searchValidNearby and fixInvalidInputStates.  The random draws make an  *)
(* operation a set of outcomes, one per sequence of samples.               *)

MaxStarts == 1

MaxAttempts == 1

satisfiesBounds(st) ==
    \A i \in 1..m_stateDimension :
        /\ RLeq(m_stateComponent[i].minValue, st[i])
        /\ RLeq(st[i], m_stateComponent[i].maxValue)

(* "fix bounds, if needed" *)
ClipToBounds(st) ==
    [i \in 1..m_stateDimension |->
        IF RLess(m_stateComponent[i].maxValue, st[i])
        THEN m_stateComponent[i].maxValue
        ELSE IF RLess(st[i], m_stateComponent[i].minValue)
             THEN m_stateComponent[i].minValue
             ELSE st[i]]

(* m_rng.uniform(lo, hi): the bounds and the integers between them *)
Uniform(lo, hi) ==
    {lo, hi} \cup {R(k) : k \in RCeil(lo)..RFloor(hi)}

(* SamplingCore::sampleNear(state, near, rho), rho per axis *)
sampleNear(near, rho) ==
    LET draws(i) ==
            Uniform(RMax(m_stateComponent[i].minValue, RSub(near[i], rho[i])),
                    RMin(m_stateComponent[i].maxValue, RAdd(near[i], rho[i])))
    IN  {<<a, b>> : a \in draws(1), b \in draws(2)}

RECURSIVE SearchLoop(_, _, _, _, _, _)
SearchLoop(temp, rho, attempts, i, result, state) ==
    IF i < attempts /\ ~result
    THEN UNION {SearchLoop(temp, rho, attempts, i + 1, isValid(s), s) :
                    s \in sampleNear(temp, rho)}
    ELSE {[result |-> result, state |-> state]}

searchValidNearby(near, rho, attempts) ==
    LET state == IF ~satisfiesBounds(near) THEN ClipToBounds(near) ELSE near
        result == isValid(state)
    IN  IF ~result
        THEN SearchLoop(state, rho, attempts, 0, result, state)
        ELSE {[result |-> result, state |-> state]}

(* a plausible slip: the scratch state is copied back whatever the result *)
StoreRepair_Always(st, r) == r.state

(* "if (searchValidNearby(&temp, st, rho, attempts)) copyState(st, &temp)" *)
StoreRepair(st, r) == IF r.result THEN r.state ELSE st

Message(text) == [level |-> "message", text |-> text]

Warning(text, i) == [level |-> "warn", text |-> text, index |-> i]

(* the repair of one stored state: the set of [st, msgs] outcomes *)
FixState(st, rho, attempts, notValid, notInBounds, attempting, unable) ==
    LET b == satisfiesBounds(st)
        v == IF b THEN isValid(st) ELSE FALSE
        first == IF b THEN (IF ~v THEN <<notValid>> ELSE <<>>)
                 ELSE <<notInBounds>>
    IN  IF ~b \/ ~v
        THEN {[st |-> StoreRepair(st, r),
               msgs |-> first \o <<attempting>>
                              \o (IF r.result THEN <<>> ELSE <<unable>>)] :
                r \in searchValidNearby(st, rho, attempts)}
        ELSE {[st |-> st, msgs |-> first]}

RECURSIVE FixStartStates(_, _, _, _, _)
FixStartStates(starts, rhoStart, attempts, i, msgs) ==
    IF i < Len(starts)
    THEN LET st == starts[i + 1]
         IN  IF st # NULL
             THEN UNION {FixStartStates([starts EXCEPT ![i + 1] = r.st],
                                        rhoStart, attempts, i + 1,
                                        msgs \o r.msgs) :
                    r \in FixState(st, rhoStart, attempts,
                            Message("Initial state is not valid"),
                            Message("Initial state is not within space bounds"),
                            Message("Attempting to fix initial state"),
                            Warning("Unable to fix start state", i))}
             ELSE FixStartStates(starts, rhoStart, attempts, i + 1, msgs)
    ELSE {[starts |-> starts, msgs |-> msgs]}

GoalState(st) == [kind |-> "GoalState", state |-> st]

FixGoal(goal, rhoGoal, attempts) ==
    IF goal.kind = "GoalState" /\ goal.state # NULL
    THEN {[goal |-> GoalState(r.st), msgs |-> r.msgs] :
            r \in FixState(goal.state, rhoGoal, attempts,
                    Message("Goal state is not valid"),
                    Message("Goal state is not within space bounds"),
                    Message("Attempting to fix goal state"),
                    Warning("Unable to fix goal state", 0))}
    ELSE {[goal |-> goal, msgs |-> <<>>]}

fixInvalidInputStates(rhoStart, rhoGoal, attempts) ==
    {[starts |-> s.starts, goal |-> g.goal, msgs |-> s.msgs \o g.msgs] :
        s \in FixStartStates(m_startStates, rhoStart, attempts, 0, <<>>),
        g \in FixGoal(m_goal, rhoGoal, attempts)}

(* stored states: inside, on and beyond the bounds of both axes *)
StoredStates ==
    {<<R(x), R(a)>> : x \in {-1, 0, MaxCoord + 1}, a \in {0, HalfTurn + 1}}

RhoStart == <<R(1), R(1)>>

RhoGoal == <<R(1), R(0)>>

FixInvalidInputStates ==
    /\ fixIn.op = "none"
    /\ \E attempts \in 0..MaxAttempts :
        \E r \in fixInvalidInputStates(RhoStart, RhoGoal, attempts) :
            /\ m_startStates' = r.starts
            /\ m_goal' = r.goal
            /\ m_msg' = r.msgs
            /\ fixIn' = [op |-> "fixInvalidInputStates",
                         starts |-> m_startStates, goal |-> m_goal,
                         attempts |-> attempts]
    /\ UNCHANGED <<motionVars, pathVars>>

InitFix ==
    /\ m_stateComponent = UnitSpace
    /\ obstacle \in Obstacles
    /\ call = NoCall
    /\ PathIdle
    /\ m_startStates \in SeqsUpTo(StoredStates \cup {NULL}, MaxStarts)
    /\ m_goal \in {NoGoalState} \cup {GoalState(st) : st \in StoredStates \cup {NULL}}
    /\ m_msg = <<>>
    /\ fixIn = [op |-> "none"]

NextFix == FixInvalidInputStates

SpecFix == InitFix /\ [][NextFix]_vars

-----------------------------------------------------------------------------
(* Properties of fixInvalidInputStates *)

Reported(w) == \E k \in 1..Len(m_msg) : m_msg[k] = w

FailedStart(i) == Reported(Warning("Unable to fix start state", i))

FailedGoal == Reported(Warning("Unable to fix goal state", 0))

NeedsRepair(st) == ~satisfiesBounds(st) \/ ~isValid(st)

(* the projected state and every state sampleNear can draw are invalid *)
NothingValidNearby(st, rho) ==
    /\ ~isValid(ClipToBounds(st))
    /\ \A s \in sampleNear(ClipToBounds(st), rho) : ~isValid(s)

(* the stored states the repair looked at: <<before, after, rho, failed>> *)
Repaired ==
    {<<fixIn.starts[i + 1], m_startStates[i + 1], RhoStart, FailedStart(i)>> :
        i \in {k \in 0..(Len(fixIn.starts) - 1) : fixIn.starts[k + 1] # NULL}}
    \cup (IF fixIn.goal.kind = "GoalState" /\ fixIn.goal.state # NULL
          THEN {<<fixIn.goal.state, m_goal.state, RhoGoal, FailedGoal>>}
          ELSE {})

(* C5 as stated: when a start or goal state is out of bounds or invalid    *)
(* and neither the projected state nor any sample is valid, failure is     *)
(* reported and the stored state is left equal to its projection into      *)
(* bounds.                                                                 *)
C5_FailureLeavesProjection ==
    fixIn.op = "fixInvalidInputStates"
        => \A t \in Repaired :
            /\ (NeedsRepair(t[1]) /\ NothingValidNearby(t[1], t[3])) => t[4]
            /\ t[4] => t[2] = ClipToBounds(t[1])

(* C5 amended: in that case failure is reported and the stored state is    *)
(* left unchanged, equal to its original value (out of bounds if it was);  *)
(* a stored state is overwritten only by a valid state found nearby.       *)
C5_FailureLeavesOriginal ==
    fixIn.op = "fixInvalidInputStates"
        => \A t \in Repaired :
            /\ (NeedsRepair(t[1]) /\ NothingValidNearby(t[1], t[3])) => t[4]
            /\ t[4] => /\ t[2] = t[1]
                       /\ NeedsRepair(t[1])
                       /\ ~isValid(ClipToBounds(t[1]))
            /\ ~t[4] => (satisfiesBounds(t[2]) /\ isValid(t[2]))

C5_Witness ==
    /\ fixIn.op = "fixInvalidInputStates"
    /\ fixIn.attempts >= 1
    /\ Len(fixIn.starts) >= 1
    /\ fixIn.starts[1] # NULL
    /\ FailedStart(0)
    /\ ~satisfiesBounds(fixIn.starts[1])
    /\ m_startStates[1] = fixIn.starts[1]
    /\ m_startStates[1] # ClipToBounds(fixIn.starts[1])

=============================================================================
